---- MODULE Spec2Model ----
(***************************************************************************)
(* A model of ppi_finder: the PpiFinder detectors (contains_name,         *)
(* contains_uhl_system_number, contains_postcode, contains_nhs_number,    *)
(* contains_dob with parse_date), the analyse scan loop, found_message,   *)
(* and the name corpus file written by get_names.main.                    *)
(*                                                                         *)
(* Python strings are sequences of one-character strings.  A cell value   *)
(* is a record tagged with its Python type.                               *)
(***************************************************************************)
EXTENDS Integers, Sequences, FiniteSets, TLC

VARIABLES
    pc,         \* position of the program under the specification at hand
    today,      \* datetime.utcnow().date(), as <<year, month, day>>
    corpus,     \* get_names.main: the names the query returned, in iteration order
    namesFile,  \* the content of _names.txt
    names,      \* PpiFinder.names
    columns,    \* PpiFinder.columns (<<>> stands for None or an empty list)
    fieldnames, \* csv.fieldnames
    csv,        \* the rows of the row source, in the order it yields them
    i,          \* analyse: the row index of enumerate(csv)
    ci,         \* analyse: how many columns of row i have been processed
    errors,     \* analyse: the findings map
    raised,     \* the exception that ended analyse ("" when none)
    report,     \* main: what found_message returned per column and category
    value,      \* the cell value handed to a detector
    ret,        \* what the detector returned
    parsed,     \* what parse_date did with the value
    dateutil,   \* what dateutil's parser answers for each string that reaches it
    digits,     \* the ten digits of a candidate NHS number
    seps        \* the two separators of its grouped writing

vars == <<pc, today, corpus, namesFile, names, columns, fieldnames, csv, i, ci,
          errors, raised, report, value, ret, parsed, dateutil, digits, seps>>

-----------------------------------------------------------------------------
(* Characters and strings *)

DigitChars == <<"0", "1", "2", "3", "4", "5", "6", "7", "8", "9">>

LowerChars == <<"a", "b", "c", "d", "e", "f", "g", "h", "i", "j", "k", "l", "m",
                "n", "o", "p", "q", "r", "s", "t", "u", "v", "w", "x", "y", "z">>

UpperChars == <<"A", "B", "C", "D", "E", "F", "G", "H", "I", "J", "K", "L", "M",
                "N", "O", "P", "Q", "R", "S", "T", "U", "V", "W", "X", "Y", "Z">>

Range(f) == {f[x] : x \in DOMAIN f}

IsDigit(c) == c \in Range(DigitChars)

IsLower(c) == c \in Range(LowerChars)

IsUpper(c) == c \in Range(UpperChars)

IsAlpha(c) == IsLower(c) \/ IsUpper(c)

\* \w of Python's re on the characters of the model
IsWordChar(c) == IsDigit(c) \/ IsAlpha(c) \/ c = "_"

\* \s of Python's re on the characters of the model
IsSpace(c) == c \in {" ", "\n", "\t"}

IndexOf(seq, c) == CHOOSE k \in DOMAIN seq : seq[k] = c

\* int(j) for a one-digit string j
DigitValue(c) == IndexOf(DigitChars, c) - 1

\* str.lower() on one character
LowerChar(c) == IF IsUpper(c) THEN LowerChars[IndexOf(UpperChars, c)] ELSE c

RECURSIVE IntToStr(_)
\* str(n) for an integer n >= 0
IntToStr(n) ==
    IF n < 10 THEN <<DigitChars[n + 1]>>
    ELSE IntToStr(n \div 10) \o <<DigitChars[(n % 10) + 1]>>

RECURSIVE StrToInt(_)
\* int(s) for a string of decimal digits
StrToInt(s) ==
    IF s = <<>> THEN 0
    ELSE 10 * StrToInt(SubSeq(s, 1, Len(s) - 1)) + DigitValue(s[Len(s)])

\* str(n).zfill(w), as the date types format their fields
Pad(n, w) ==
    LET s == IntToStr(n)
    IN  [k \in 1..(IF w > Len(s) THEN w - Len(s) ELSE 0) |-> "0"] \o s

\* s[p:p+n] (p is a 0-based offset)
Slice(s, p, n) == SubSeq(s, p + 1, p + n)

\* n digits stand at offset p of s
DigitsAt(s, p, n) == p + n <= Len(s) /\ \A k \in 1..n : IsDigit(s[p + k])

\* character c stands at offset p of s
CharAt(s, p, c) == p + 1 <= Len(s) /\ s[p + 1] = c

\* \b of Python's re at offset p of s
WordBoundary(s, p) ==
    LET before == p >= 1 /\ IsWordChar(s[p])
        after == p + 1 <= Len(s) /\ IsWordChar(s[p + 1])
    IN  before # after

-----------------------------------------------------------------------------
(* Cell values *)

NoDate == <<0, 0, 0>>

None == [type |-> "NoneType", s |-> <<>>, d |-> NoDate]

StrCell(s) == [type |-> "str", s |-> s, d |-> NoDate]

\* an int, held as its decimal writing str(n) (a ten-digit number exceeds the
\* integers of the checker)
IntCell(s) == [type |-> "int", s |-> s, d |-> NoDate]

DateCell(d) == [type |-> "date", s |-> <<>>, d |-> d]

\* a datetime at midnight
DateTimeCell(d) == [type |-> "datetime", s |-> <<>>, d |-> d]

\* Python's "not value"
Falsy(v) ==
    \/ v.type = "NoneType"
    \/ v.type = "str" /\ v.s = <<>>
    \/ v.type = "int" /\ v.s = <<"0">>

\* isinstance(value, str)
IsStr(v) == v.type = "str"

\* str(value)
PyStr(v) ==
    CASE v.type = "str" -> v.s
      [] v.type = "int" -> v.s
      [] v.type = "NoneType" -> <<"N", "o", "n", "e">>
      [] v.type = "date" ->
            Pad(v.d[1], 4) \o <<"-">> \o Pad(v.d[2], 2) \o <<"-">> \o Pad(v.d[3], 2)
      [] v.type = "datetime" ->
            Pad(v.d[1], 4) \o <<"-">> \o Pad(v.d[2], 2) \o <<"-">> \o Pad(v.d[3], 2)
            \o <<" ", "0", "0", ":", "0", "0", ":", "0", "0">>

-----------------------------------------------------------------------------
(* contains_nhs_number *)

\* a faulty variant of re_nhs_numbers: the space-grouped alternative is missing
NhsPatternNoSpaceGroup(s, p) ==
    IF ~WordBoundary(s, p) THEN 0
    ELSE IF DigitsAt(s, p, 10) /\ WordBoundary(s, p + 10) THEN 10
    ELSE IF /\ DigitsAt(s, p, 3) /\ CharAt(s, p + 3, "-")
            /\ DigitsAt(s, p + 4, 3) /\ CharAt(s, p + 7, "-")
            /\ DigitsAt(s, p + 8, 4) /\ WordBoundary(s, p + 12) THEN 12
    ELSE 0

\* the length of the match of re_nhs_numbers that starts at offset p, 0 when none:
\* \b(\d{10}|\d{3}-\d{3}-\d{4}|\d{3} \d{3} \d{4})\b, alternatives tried in order
re_nhs_numbers(s, p) ==
    IF ~WordBoundary(s, p) THEN 0
    ELSE IF DigitsAt(s, p, 10) /\ WordBoundary(s, p + 10) THEN 10
    ELSE IF /\ DigitsAt(s, p, 3) /\ CharAt(s, p + 3, "-")
            /\ DigitsAt(s, p + 4, 3) /\ CharAt(s, p + 7, "-")
            /\ DigitsAt(s, p + 8, 4) /\ WordBoundary(s, p + 12) THEN 12
    ELSE IF /\ DigitsAt(s, p, 3) /\ CharAt(s, p + 3, " ")
            /\ DigitsAt(s, p + 4, 3) /\ CharAt(s, p + 7, " ")
            /\ DigitsAt(s, p + 8, 4) /\ WordBoundary(s, p + 12) THEN 12
    ELSE 0

RECURSIVE FindAllFrom(_, _)
\* re_nhs_numbers.findall(s), scanning from offset p: the non-overlapping matches
FindAllFrom(s, p) ==
    IF p >= Len(s) THEN <<>>
    ELSE LET n == re_nhs_numbers(s, p)
         IN  IF n > 0 THEN <<Slice(s, p, n)>> \o FindAllFrom(s, p + n)
             ELSE FindAllFrom(s, p + 1)

\* re_nhs_dividers.sub('', m)
re_nhs_dividers_sub(m) == SelectSeq(m, LAMBDA c : c \notin {"-", " "})

RECURSIVE WeightedSum(_, _)
\* sum(int(j) * (11 - (i + 1)) for i, j in enumerate(nhs_number[:9])), from index k
WeightedSum(nhs_number, k) ==
    IF k > 8 \/ k + 1 > Len(nhs_number) THEN 0
    ELSE DigitValue(nhs_number[k + 1]) * (11 - (k + 1)) + WeightedSum(nhs_number, k + 1)

checkcalc(sum) == 11 - (sum % 11)

\* a faulty variant of calculate_nhs_number_checksum: the check value taken mod 10
checkcalcMod10(sum) == (11 - (sum % 11)) % 10

calculate_nhs_number_checksumMod10(nhs_number) ==
    IntToStr(checkcalcMod10(WeightedSum(nhs_number, 0)))

\* str(check), with '0' for a check value of 11
calculate_nhs_number_checksum(nhs_number) ==
    LET char_total == WeightedSum(nhs_number, 0)
    IN  IF checkcalc(char_total) # 11 THEN IntToStr(checkcalc(char_total)) ELSE <<"0">>

\* A detector returns "True", "False" or "None" (the fall-through of a function
\* without a return); only "True" is truthy.
Truthy(r) == r = "True"

contains_nhs_number(v) ==
    IF Falsy(v) THEN "False"
    ELSE LET matches == FindAllFrom(PyStr(v), 0)
         IN  IF \E k \in DOMAIN matches :
                    LET m == re_nhs_dividers_sub(matches[k])
                    IN  calculate_nhs_number_checksum(m) = <<m[10]>>
             THEN "True" ELSE "None"

-----------------------------------------------------------------------------
(* Calendar dates: <<year, month, day>> *)

IsLeap(y) == (y % 4 = 0 /\ y % 100 # 0) \/ y % 400 = 0

DaysInMonth(y, m) ==
    IF m = 2 THEN (IF IsLeap(y) THEN 29 ELSE 28)
    ELSE IF m \in {4, 6, 9, 11} THEN 30 ELSE 31

\* datetime.date(y, m, d) raises ValueError unless this holds
ValidDate(y, m, d) ==
    /\ y \in 1..9999
    /\ m \in 1..12
    /\ d \in 1..DaysInMonth(y, m)

\* a < b on dates
DateLt(a, b) ==
    \/ a[1] < b[1]
    \/ a[1] = b[1] /\ a[2] < b[2]
    \/ a[1] = b[1] /\ a[2] = b[2] /\ a[3] < b[3]

\* dt - relativedelta(years=n): the year moved, the day clamped to the month's end
SubYears(dt, n) ==
    LET y == dt[1] - n
        last == DaysInMonth(y, dt[2])
    IN  <<y, dt[2], IF dt[3] > last THEN last ELSE dt[3]>>

-----------------------------------------------------------------------------
(* parse_date and contains_dob *)

RECURSIVE LStrip(_)
LStrip(s) == IF s # <<>> /\ IsSpace(Head(s)) THEN LStrip(Tail(s)) ELSE s

RECURSIVE RStrip(_)
RStrip(s) ==
    IF s # <<>> /\ IsSpace(s[Len(s)]) THEN RStrip(SubSeq(s, 1, Len(s) - 1)) ELSE s

RECURSIVE DropZeros(_)
DropZeros(s) == IF Len(s) > 1 /\ Head(s) = "0" THEN DropZeros(Tail(s)) ELSE s

\* float(value) on the decimal writings of the model (blanks around, a sign,
\* digits, at most one point; no exponent, underscore, inf or nan):
\* ok is FALSE where float raises ValueError
Float(s) ==
    LET t == RStrip(LStrip(s))
        u == IF t # <<>> /\ Head(t) \in {"+", "-"} THEN Tail(t) ELSE t
        dots == {k \in DOMAIN u : u[k] = "."}
        dot == IF dots = {} THEN Len(u) + 1 ELSE CHOOSE k \in dots : TRUE
        whole == SubSeq(u, 1, dot - 1)
        frac == SubSeq(u, dot + 1, Len(u))
    IN  [ok |-> /\ Cardinality(dots) <= 1
                /\ \A k \in DOMAIN u : k # dot => IsDigit(u[k])
                /\ Len(whole) + Len(frac) >= 1,
         negative |-> t # <<>> /\ Head(t) = "-",
         whole |-> DropZeros(IF whole = <<>> THEN <<"0">> ELSE whole),
         fraction |-> \E k \in DOMAIN frac : frac[k] # "0"]

SerialLow == 1000000

SerialHigh == 100000000

\* 1_000_000 < f < 100_000_000
InSerialRange(f) ==
    /\ ~f.negative
    /\ Len(f.whole) <= 9
    /\ LET n == StrToInt(f.whole)
       IN  /\ n > SerialLow \/ (n = SerialLow /\ f.fraction)
           /\ n < SerialHigh

\* the offset after an optional character of cs at offset p
Optional(s, p, cs) == IF p + 1 <= Len(s) /\ s[p + 1] \in cs THEN p + 1 ELSE p

RECURSIVE DigitRun(_, _)
\* the number of digits that stand at offset p of s
DigitRun(s, p) == IF DigitsAt(s, p, 1) THEN 1 + DigitRun(s, p + 1) ELSE 0

\* the offset after (?:[ T]\d{2}:\d{2}:\d{2})? at offset p
TimeEnd(s, p) ==
    IF /\ p + 1 <= Len(s) /\ s[p + 1] \in {" ", "T"}
       /\ DigitsAt(s, p + 1, 2) /\ CharAt(s, p + 3, ":")
       /\ DigitsAt(s, p + 4, 2) /\ CharAt(s, p + 6, ":")
       /\ DigitsAt(s, p + 7, 2)
    THEN p + 9 ELSE p

\* the offset after (?:\.\d+)? at offset p
FractionEnd(s, p) ==
    IF CharAt(s, p, ".") /\ DigitsAt(s, p + 1, 1) THEN p + 1 + DigitRun(s, p + 1) ELSE p

\* the offset after (?:[+-]\d{2}:\d{2})? at offset p
OffsetEnd(s, p) ==
    IF /\ p + 1 <= Len(s) /\ s[p + 1] \in {"+", "-"}
       /\ DigitsAt(s, p + 1, 2) /\ CharAt(s, p + 3, ":")
       /\ DigitsAt(s, p + 4, 2)
    THEN p + 6 ELSE p

AnsiSeparators == {"\\", " ", "-"}

\* the offset of the month: after the year and [\\ -]?
MonthAt(s) == Optional(s, 4, AnsiSeparators)

\* the offset of the day: after the month and [\\ -]?
DayAt(s) == Optional(s, MonthAt(s) + 2, AnsiSeparators)

\* re_ansi_dates.fullmatch(s): the groups year, month and day, or no match.
\* Each optional part is recognised by its first character, so the match is
\* found without backtracking.
re_ansi_dates_fullmatch(s) ==
    IF /\ DigitsAt(s, 0, 4) /\ DigitsAt(s, MonthAt(s), 2) /\ DigitsAt(s, DayAt(s), 2)
       /\ OffsetEnd(s, FractionEnd(s, TimeEnd(s, DayAt(s) + 2))) = Len(s)
    THEN [matched |-> TRUE, year |-> StrToInt(Slice(s, 0, 4)),
          month |-> StrToInt(Slice(s, MonthAt(s), 2)),
          day |-> StrToInt(Slice(s, DayAt(s), 2))]
    ELSE [matched |-> FALSE, year |-> 0, month |-> 0, day |-> 0]

\* What parse_date does: returns None, returns a date, or raises.  general tells
\* whether dateutil's parse(value, dayfirst=True) was called.
ReturnNone == [kind |-> "None", d |-> NoDate, general |-> FALSE]

ReturnDate(d, g) == [kind |-> "date", d |-> d, general |-> g]

Raise(g) == [kind |-> "raise", d |-> NoDate, general |-> g]

\* dateutil's parser is outside the repository: parse maps each string that
\* reaches it to what it answers, a date or an exception
GeneralParse(s, parse) ==
    IF parse[s].kind = "date" THEN ReturnDate(parse[s].d, TRUE) ELSE Raise(TRUE)

\* a faulty variant of parse_date: a number inside the range returns None and a
\* number outside it goes on to the general parser
parse_dateGuardInverted(v, parse) ==
    IF Falsy(v) THEN ReturnNone
    ELSE IF v.type \in {"datetime", "date"} THEN ReturnDate(v.d, FALSE)
    ELSE LET s == PyStr(v)
             ansi_match == re_ansi_dates_fullmatch(s)
             f == Float(s)
         IN  IF ansi_match.matched
             THEN IF ValidDate(ansi_match.year, ansi_match.month, ansi_match.day)
                  THEN ReturnDate(<<ansi_match.year, ansi_match.month, ansi_match.day>>, FALSE)
                  ELSE Raise(FALSE)
             ELSE IF f.ok /\ InSerialRange(f) THEN ReturnNone
             ELSE GeneralParse(s, parse)

parse_date(v, parse) ==
    IF Falsy(v) THEN ReturnNone
    ELSE IF v.type \in {"datetime", "date"} THEN ReturnDate(v.d, FALSE)
    ELSE LET s == PyStr(v)
             ansi_match == re_ansi_dates_fullmatch(s)
             f == Float(s)
         IN  IF ansi_match.matched
             THEN IF ValidDate(ansi_match.year, ansi_match.month, ansi_match.day)
                  THEN ReturnDate(<<ansi_match.year, ansi_match.month, ansi_match.day>>, FALSE)
                  ELSE Raise(FALSE)
             ELSE IF f.ok /\ ~InSerialRange(f) THEN ReturnNone
             ELSE GeneralParse(s, parse)

MaxAge == 130

MinAge == 10

\* a faulty variant of the comparison of contains_dob: the bounds included
InDobRangeInclusive(dt_val, now) ==
    /\ ~DateLt(dt_val, SubYears(now, MaxAge))
    /\ ~DateLt(SubYears(now, MinAge), dt_val)

\* (utcnow().date() - relativedelta(years=130)) < dt_val
\*      < (utcnow().date() - relativedelta(years=10)),
\* both calls of utcnow falling on the same day
InDobRange(dt_val, now) ==
    /\ DateLt(SubYears(now, MaxAge), dt_val)
    /\ DateLt(dt_val, SubYears(now, MinAge))

\* a faulty variant of contains_dob: no try around parse_date
contains_dobNoTry(v, now, parse) ==
    LET dt_val == parse_date(v, parse)
    IN  IF dt_val.kind = "raise" THEN "raise"
        ELSE IF dt_val.kind = "None" THEN "False"
        ELSE IF InDobRange(dt_val.d, now) THEN "True" ELSE "None"

\* contains_dob returns "True", "False" or "None"; "raise" would be an exception
\* leaving it
contains_dob(v, now, parse) ==
    LET dt_val == parse_date(v, parse)
    IN  IF dt_val.kind = "raise" THEN "False"
        ELSE IF dt_val.kind = "None" THEN "False"
        ELSE IF InDobRange(dt_val.d, now) THEN "True" ELSE "None"

-----------------------------------------------------------------------------
(* The name corpus file, and contains_name *)

RECURSIVE Join(_, _)
\* sep.join(parts)
Join(parts, sep) ==
    IF parts = <<>> THEN <<>>
    ELSE IF Len(parts) = 1 THEN parts[1]
    ELSE parts[1] \o sep \o Join(Tail(parts), sep)

\* get_names.main: outfile.write("\n".join(names))
WriteNames(ns) == Join(ns, <<"\n">>)

RECURSIVE ReadLinesAcc(_, _, _)
\* f.readlines() from position k on, cur being the line read so far: every line
\* keeps its line end
ReadLinesAcc(text, k, cur) ==
    IF k > Len(text) THEN (IF cur = <<>> THEN <<>> ELSE <<cur>>)
    ELSE IF text[k] = "\n" THEN <<Append(cur, "\n")>> \o ReadLinesAcc(text, k + 1, <<>>)
    ELSE ReadLinesAcc(text, k + 1, Append(cur, text[k]))

\* PpiFinder.__init__: self.names = {n for n in f.readlines()}
LoadNames(text) == Range(ReadLinesAcc(text, 1, <<>>))

\* re_numbers.sub(' ', value.lower())
LowerNoDigits(s) == [k \in DOMAIN s |-> IF IsDigit(s[k]) THEN " " ELSE LowerChar(s[k])]

RECURSIVE SplitAcc(_, _, _)
\* re_words.split(s) from position k on, cur being the token read so far: the
\* pieces between the runs of non-word characters, empty pieces at the ends included
SplitAcc(s, k, cur) ==
    IF k > Len(s) THEN <<cur>>
    ELSE IF IsWordChar(s[k]) THEN SplitAcc(s, k + 1, Append(cur, s[k]))
    ELSE IF k > 1 /\ ~IsWordChar(s[k - 1]) THEN SplitAcc(s, k + 1, cur)
    ELSE <<cur>> \o SplitAcc(s, k + 1, <<>>)

re_words_split(s) == SplitAcc(s, 1, <<>>)

\* contains_name with self.names = ns: the set found
contains_name(v, ns) ==
    IF Falsy(v) \/ ~IsStr(v) THEN {}
    ELSE {w \in Range(re_words_split(LowerNoDigits(v.s))) : w \in ns}

-----------------------------------------------------------------------------
(* contains_uhl_system_number and contains_postcode *)

\* s[p:] starts with the characters cs
StartsAt(s, p, cs) == p + Len(cs) <= Len(s) /\ \A k \in DOMAIN cs : s[p + k] = cs[k]

\* re_uhl_s_number matches at offset p:
\* [SRFG]\d{7} | [U]\d{7}.* | LB\d{7} | RTD[\-0-9]*
re_uhl_s_number(s, p) ==
    \/ p + 1 <= Len(s) /\ s[p + 1] \in {"S", "R", "F", "G", "U"} /\ DigitsAt(s, p + 1, 7)
    \/ StartsAt(s, p, <<"L", "B">>) /\ DigitsAt(s, p + 2, 7)
    \/ StartsAt(s, p, <<"R", "T", "D">>)

contains_uhl_system_number(v) ==
    IF Falsy(v) \/ ~IsStr(v) THEN "False"
    ELSE IF \E p \in 0..(Len(v.s) - 1) : re_uhl_s_number(v.s, p) THEN "True"
    ELSE "None"

AlphaAt(s, p) == p + 1 <= Len(s) /\ IsAlpha(s[p + 1])

\* [A-Ha-hJ-Yj-y] at offset p
SecondLetterAt(s, p) == AlphaAt(s, p) /\ LowerChar(s[p + 1]) \notin {"i", "z"}

\* the lengths of the outward codes that start at offset p:
\* [A-Za-z][0-9]{1,2} | [A-Za-z][A-Ha-hJ-Yj-y][0-9]{1,2} | [A-Za-z][0-9][A-Za-z]
\* | [A-Za-z][A-Ha-hJ-Yj-y][0-9][A-Za-z]?
OutwardLengths(s, p) ==
    {n \in 2..4 :
        /\ AlphaAt(s, p)
        /\ \/ n \in 2..3 /\ DigitsAt(s, p + 1, n - 1)
           \/ n \in 3..4 /\ SecondLetterAt(s, p + 1) /\ DigitsAt(s, p + 2, n - 2)
           \/ n = 3 /\ DigitsAt(s, p + 1, 1) /\ AlphaAt(s, p + 2)
           \/ n = 3 /\ SecondLetterAt(s, p + 1) /\ DigitsAt(s, p + 2, 1)
           \/ n = 4 /\ SecondLetterAt(s, p + 1) /\ DigitsAt(s, p + 2, 1) /\ AlphaAt(s, p + 3)}

\* [0-9][A-Za-z]{2} at offset p
InwardAt(s, p) == DigitsAt(s, p, 1) /\ AlphaAt(s, p + 1) /\ AlphaAt(s, p + 2)

\* [Gg][Ii][Rr] ?0[Aa]{2} at offset p
GirAt(s, p) ==
    /\ p + 3 <= Len(s)
    /\ <<LowerChar(s[p + 1]), LowerChar(s[p + 2]), LowerChar(s[p + 3])>> = <<"g", "i", "r">>
    /\ \E q \in {p + 3} \cup {r \in {p + 4} : CharAt(s, p + 3, " ")} :
        /\ CharAt(s, q, "0")
        /\ q + 3 <= Len(s) /\ LowerChar(s[q + 2]) = "a" /\ LowerChar(s[q + 3]) = "a"

\* re_postcodes matches at offset p
re_postcodes(s, p) ==
    \/ GirAt(s, p)
    \/ \E n \in OutwardLengths(s, p) :
        \/ InwardAt(s, p + n)
        \/ p + n + 1 <= Len(s) /\ IsSpace(s[p + n + 1]) /\ InwardAt(s, p + n + 1)

contains_postcode(v) ==
    IF Falsy(v) \/ ~IsStr(v) THEN "False"
    ELSE IF \E p \in 0..(Len(v.s) - 1) : re_postcodes(v.s, p) THEN "True"
    ELSE "None"

-----------------------------------------------------------------------------
(* analyse and found_message *)

EvidenceCategories == {"UHL System Number", "postcode", "NHS Number", "Date of Birth"}

\* the entry analyse creates for a column
NoFindings == [k \in EvidenceCategories \cup {"Name"} |-> IF k = "Name" THEN {} ELSE <<>>]

\* e[k].append({'row': row, 'value': v}) if the detector's result r is truthy
Record(e, k, r, row, v) ==
    IF Truthy(r) THEN [e EXCEPT ![k] = Append(@, [row |-> row, value |-> v])] ELSE e

\* a faulty variant of the body of the column loop: the detectors chained by elif
ProcessCellElif(e, v, row, ns, now, parse) ==
    LET uhl == contains_uhl_system_number(v)
        post == contains_postcode(v)
        nhs == contains_nhs_number(v)
        dob == contains_dob(v, now, parse)
        e1 == IF Truthy(uhl) THEN Record(e, "UHL System Number", uhl, row, v)
              ELSE IF Truthy(post) THEN Record(e, "postcode", post, row, v)
              ELSE IF Truthy(nhs) THEN Record(e, "NHS Number", nhs, row, v)
              ELSE IF dob # "raise" THEN Record(e, "Date of Birth", dob, row, v)
              ELSE e
    IN  [e |-> [e1 EXCEPT !["Name"] = @ \cup contains_name(v, ns)], raised |-> ""]

\* the body of the column loop of analyse for the cell value v of row number row:
\* the entry of the column afterwards, and the exception that left a detector
ProcessCell(e, v, row, ns, now, parse) ==
    LET e1 == Record(e, "UHL System Number", contains_uhl_system_number(v), row, v)
        e2 == Record(e1, "postcode", contains_postcode(v), row, v)
        e3 == Record(e2, "NHS Number", contains_nhs_number(v), row, v)
        dob == contains_dob(v, now, parse)
        e4 == Record(e3, "Date of Birth", dob, row, v)
    IN  IF dob = "raise" THEN [e |-> e3, raised |-> "detector"]
        ELSE [e |-> [e4 EXCEPT !["Name"] = @ \cup contains_name(v, ns)], raised |-> ""]

\* a faulty variant of found_message: the latest finding in first-match mode
found_messageLast(column, ppi_name, result, show_all_matches) ==
    LET values == result[ppi_name]
    IN  IF Len(values) > 0
        THEN (IF show_all_matches THEN values ELSE <<values[Len(values)]>>)
        ELSE <<>>

\* found_message: the findings the returned text shows (none for '')
found_message(column, ppi_name, result, show_all_matches) ==
    LET values == result[ppi_name]
    IN  IF Len(values) > 0
        THEN (IF show_all_matches THEN values ELSE <<values[1]>>)
        ELSE <<>>

-----------------------------------------------------------------------------
(* The NHS number detector on its own *)

FreeDigits == 3

\* 9434765919 is a valid NHS number; its leading digits are kept
NhsBase == <<9, 4, 3, 4, 7, 6, 5, 9, 1, 9>>

NhsDigits ==
    {SubSeq(NhsBase, 1, 10 - FreeDigits) \o free : free \in [1..FreeDigits -> 0..9]}

Separators == {"-", " "}

\* the writings of a candidate: plain (<<>>) or grouped with two separators
Writings == {<<>>} \cup (Separators \X Separators)

Plain(ds) == [k \in 1..10 |-> DigitChars[ds[k] + 1]]

Grouped(ds, sp) ==
    LET p == Plain(ds)
    IN  IF sp = <<>> THEN p
        ELSE SubSeq(p, 1, 3) \o <<sp[1]>> \o SubSeq(p, 4, 6) \o <<sp[2]>> \o SubSeq(p, 7, 10)

\* text around a candidate, the candidate standing at word boundaries
Contexts == {<<>>, <<"n", "o", " ">>}

NhsIdle == digits = <<>> /\ seps = <<>>

DetectorIdle == value = None /\ ret = "None"

DobIdle == today = NoDate /\ parsed = ReturnNone /\ dateutil = <<>>

CorpusIdle == corpus = <<>> /\ namesFile = <<>> /\ names = {}

ScanIdle ==
    /\ columns = <<>> /\ fieldnames = <<>> /\ csv = <<>> /\ i = 0 /\ ci = 0
    /\ errors = <<>> /\ raised = "" /\ report = <<>>

InitNhs ==
    /\ pc = "nhs_input"
    /\ digits \in NhsDigits
    /\ seps \in Writings
    /\ \/ \E ctx \in Contexts : value = StrCell(ctx \o Grouped(digits, seps))
       \/ seps = <<>> /\ digits[1] # 0 /\ value = IntCell(Plain(digits))
    /\ ret = "None"
    /\ DobIdle /\ CorpusIdle /\ ScanIdle

NhsDetect ==
    /\ pc = "nhs_input"
    /\ ret' = contains_nhs_number(value)
    /\ pc' = "nhs_done"
    /\ UNCHANGED <<today, corpus, namesFile, names, columns, fieldnames, csv, i, ci,
                   errors, raised, report, value, parsed, dateutil, digits, seps>>

NextNhs == NhsDetect

SpecNhs == InitNhs /\ [][NextNhs]_vars

\* the check value of the claim, from the digits as numbers
CheckValue(ds) ==
    11 - ((10 * ds[1] + 9 * ds[2] + 8 * ds[3] + 7 * ds[4] + 6 * ds[5] + 5 * ds[6]
           + 4 * ds[7] + 3 * ds[8] + 2 * ds[9]) % 11)

\* C1: a string of ten decimal digits is accepted by contains_nhs_number iff
\* check = 11 and d10 = 0, or check is in 1..9 and d10 = check; a check of 10
\* rejects whatever d10 is.
C1_ChecksumAccepts ==
    (pc = "nhs_done" /\ value = StrCell(Plain(digits))) =>
        LET check == CheckValue(digits)
        IN  /\ Truthy(ret) <=> ((check = 11 /\ digits[10] = 0)
                                \/ (check \in 1..9 /\ digits[10] = check))
            /\ check = 10 => ~Truthy(ret)

C1_Witness ==
    /\ pc = "nhs_done" /\ value = StrCell(Plain(digits))
    /\ CheckValue(digits) = 11 /\ digits[10] = 0 /\ Truthy(ret)

\* C9 as claimed: a 3-3-4 grouped writing whose separators are each a hyphen or
\* a space gets the result of the same ten digits written without separators.
C9_AnyGroupingAsPlain ==
    (pc = "nhs_done" /\ seps \in Separators \X Separators /\ IsStr(value)) =>
        (ret = contains_nhs_number(StrCell(Plain(digits))))

\* C9 amended: a 3-3-4 grouped writing whose two separators are both hyphens or
\* both spaces gets the result of the same ten digits written without separators.
C9_SameSeparatorAsPlain ==
    (pc = "nhs_done" /\ seps \in Separators \X Separators /\ IsStr(value)
        /\ seps[1] = seps[2]) =>
        (ret = contains_nhs_number(StrCell(Plain(digits))))

C9_Witness ==
    /\ pc = "nhs_done" /\ seps = <<" ", " ">> /\ IsStr(value)
    /\ Truthy(ret) /\ Truthy(contains_nhs_number(StrCell(Plain(digits))))

-----------------------------------------------------------------------------
(* The date-of-birth detector on its own *)

\* the days the detector runs on: a 29 February and an ordinary day
Todays == {<<2024, 2, 29>>, <<2026, 11, 2>>}

\* ages in years of the dates written in the cells
Ages == {0, 10, 50, 130}

\* months and days around those of Todays, and a month that does not exist
MonthDays == {<<2, 27>>, <<2, 28>>, <<2, 29>>, <<3, 1>>,
              <<11, 1>>, <<11, 2>>, <<11, 3>>, <<13, 1>>}

BirthDates(now) == {<<now[1] - k, md[1], md[2]>> : k \in Ages, md \in MonthDays}

Compact(d) == Pad(d[1], 4) \o Pad(d[2], 2) \o Pad(d[3], 2)

Iso(d) == Pad(d[1], 4) \o <<"-">> \o Pad(d[2], 2) \o <<"-">> \o Pad(d[3], 2)

DayFirst(d) == Pad(d[3], 2) \o <<"/">> \o Pad(d[2], 2) \o <<"/">> \o Pad(d[1], 4)

\* the writings of a date in a cell
DateWritings(d) ==
    {StrCell(Compact(d)), StrCell(Iso(d)),
     StrCell(Iso(d) \o <<"T", "0", "0", ":", "0", "0", ":", "0", "0">>),
     StrCell(<<" ">> \o Compact(d)), StrCell(DayFirst(d)), IntCell(Compact(d))}
    \cup (IF ValidDate(d[1], d[2], d[3]) THEN {DateCell(d), DateTimeCell(d)} ELSE {})

\* cells that are no dates: null, empty, numbers around the range, text
OtherCells ==
    {None, StrCell(<<>>), IntCell(<<"0">>),
     StrCell(<<"1", "2", "3", "4", "5">>), StrCell(<<" ", "1", "2", "3", "4", "5", " ">>),
     StrCell(<<"1", "2", "3", "4", "5", "6", "7">>), IntCell(<<"1", "2", "3", "4", "5", "6", "7">>),
     StrCell(<<"1", "0", "0", "0", "0", "0", "0">>),
     StrCell(<<"1", "0", "0", "0", "0", "0", "0", ".", "5">>),
     StrCell(<<"1", "0", "0", "0", "0", "0", "0", "0", "0">>),
     StrCell(<<"-", "1", "2", "3", "4", "5", "6", "7">>),
     StrCell(<<"j", "o", "n", "e", "s">>)}

DobCells(now) == OtherCells \cup UNION {DateWritings(d) : d \in BirthDates(now)}

RaiseOutcome == [kind |-> "raise", d |-> NoDate]

\* what dateutil may answer: an exception, or a date
DateutilOutcomes(now) ==
    {RaiseOutcome}
    \cup {[kind |-> "date", d |-> d] : d \in {b \in BirthDates(now) : ValidDate(b[1], b[2], b[3])}}

\* the strings of the cells vs for which parse_date calls dateutil's parser
GeneralStrings(vs) ==
    {PyStr(v) : v \in {w \in vs : ~Falsy(w) /\ w.type \in {"str", "int"}
                                  /\ parse_date(w, [s \in {PyStr(w)} |-> RaiseOutcome]).general}}

InitDob ==
    /\ pc = "dob_input"
    /\ today \in Todays
    /\ value \in DobCells(today)
    /\ dateutil \in [GeneralStrings({value}) -> DateutilOutcomes(today)]
    /\ parsed = ReturnNone
    /\ ret = "None"
    /\ NhsIdle /\ CorpusIdle /\ ScanIdle

DobDetect ==
    /\ pc = "dob_input"
    /\ parsed' = parse_date(value, dateutil)
    /\ ret' = contains_dob(value, today, dateutil)
    /\ pc' = "dob_done"
    /\ UNCHANGED <<today, corpus, namesFile, names, columns, fieldnames, csv, i, ci,
                   errors, raised, report, value, dateutil, digits, seps>>

NextDob == DobDetect

SpecDob == InitDob /\ [][NextDob]_vars

\* a date as one number, for comparing dates
DateKey(d) == d[1] * 10000 + d[2] * 100 + d[3]

\* C2: a cell that parse_date interprets as the date d is flagged by contains_dob
\* iff today - 130 years < d < today - 10 years; a date exactly 10 or exactly
\* 130 years before today is not flagged.
C2_DobStrictlyBetween ==
    (pc = "dob_done" /\ parsed.kind = "date") =>
        LET d == DateKey(parsed.d)
            low == DateKey(SubYears(today, 130))
            high == DateKey(SubYears(today, 10))
        IN  /\ Truthy(ret) <=> (low < d /\ d < high)
            /\ d \in {low, high} => ~Truthy(ret)

C2_Witness ==
    /\ pc = "dob_done" /\ parsed.kind = "date" /\ IsStr(value)
    /\ parsed.d = SubYears(today, 10) /\ ~Truthy(ret)

\* the value is a number written in a way the ANSI pattern does not fully match
NumberNotAnsi(v) ==
    /\ ~Falsy(v) /\ v.type \in {"str", "int"}
    /\ ~re_ansi_dates_fullmatch(PyStr(v)).matched
    /\ Float(PyStr(v)).ok

-----------------------------------------------------------------------------
(* The name corpus from get_names to contains_name *)

MaxNames == 3

\* lowercase names longer than two characters, as NAMES_SQL selects them
NamePool == {<<"j", "o", "n", "e", "s">>, <<"s", "m", "i", "t", "h">>,
             <<"a", "n", "n">>, <<"l", "e", "e">>}

\* the names of the query in the order the set of get_names.main iterates them:
\* distinct, in any order
Corpora ==
    {c \in UNION {[1..n -> NamePool] : n \in 0..MaxNames} :
        \A a, b \in DOMAIN c : a # b => c[a] # c[b]}

NameCells ==
    {None, StrCell(<<>>), IntCell(<<"4", "2">>),
     StrCell(<<"s", "e", "e", " ", "D", "r", " ", "J", "o", "n", "e", "s">>),
     StrCell(<<"S", "m", "i", "t", "h", "3">>),
     StrCell(<<"s", "m", "i", "t", "h">>),
     StrCell(<<"A", "N", "N", ",", "l", "e", "e", "4", "j", "o", "n", "e", "s">>),
     StrCell(<<"j", "o", "n", "e", "s", "y">>)}

InitName ==
    /\ pc = "get_names"
    /\ corpus \in Corpora
    /\ namesFile = <<>>
    /\ names = {}
    /\ value = None
    /\ ret = {}
    /\ DobIdle /\ NhsIdle /\ ScanIdle

\* get_names.main
GetNamesMain ==
    /\ pc = "get_names"
    /\ namesFile' = WriteNames(corpus)
    /\ pc' = "construct"
    /\ UNCHANGED <<today, corpus, names, columns, fieldnames, csv, i, ci, errors,
                   raised, report, value, ret, parsed, dateutil, digits, seps>>

\* PpiFinder.__init__
PpiFinderInit ==
    /\ pc = "construct"
    /\ names' = LoadNames(namesFile)
    /\ pc' = "name_input"
    /\ UNCHANGED <<today, corpus, namesFile, columns, fieldnames, csv, i, ci, errors,
                   raised, report, value, ret, parsed, dateutil, digits, seps>>

NameDetect ==
    /\ pc = "name_input"
    /\ \E v \in NameCells :
        /\ value' = v
        /\ ret' = contains_name(v, names)
    /\ pc' = "name_done"
    /\ UNCHANGED <<today, corpus, namesFile, names, columns, fieldnames, csv, i, ci,
                   errors, raised, report, parsed, dateutil, digits, seps>>

NextName == GetNamesMain \/ PpiFinderInit \/ NameDetect

SpecName == InitName /\ [][NextName]_vars

\* the tokens of a cell value as the claim states them
TokensOf(v) ==
    IF IsStr(v) THEN Range(re_words_split(LowerNoDigits(v.s))) ELSE {}

\* C5: with the corpus file written by get_names and loaded by __init__,
\* contains_name returns exactly the tokens of the value (lowercased, digits
\* replaced by spaces, split on runs of non-word characters) that are names of the
\* corpus.
C5_NamesOfCorpusFound ==
    pc = "name_done" => ret = {w \in TokensOf(value) : w \in Range(corpus)}

-----------------------------------------------------------------------------
(* The scan: PpiFinder(columns).analyse(reader), then the report of main *)

MaxRows == 2

ScanDay == <<2026, 11, 2>>

UhlText == <<"S", "1", "2", "3", "4", "5", "6", "7">>

PostcodeText == <<"L", "E", "1", " ", "5", "W", "W">>

NhsText == <<"9", "4", "3", " ", "4", "7", "6", " ", "5", "9", "1", "9">>

\* an ANSI date with a month that does not exist
MalformedDate == StrCell(<<"1", "9", "8", "0", "1", "3", "9", "9">>)

\* the rows a row source may yield: records over the header's columns
RowPool ==
    {[a |-> None, b |-> StrCell(UhlText \o <<" ">> \o PostcodeText \o <<" ">> \o NhsText)],
     [a |-> MalformedDate, b |-> StrCell(<<"1", "9", "8", "0", "0", "1", "1", "5">>)],
     [a |-> StrCell(<<"D", "r", " ", "J", "o", "n", "e", "s">>), b |-> DateCell(<<1980, 1, 15>>)],
     [a |-> StrCell(<<"9", "4", "3", "4", "7", "6", "5", "9", "1", "9">>), b |-> DateTimeCell(<<1980, 1, 15>>)],
     [a |-> StrCell(<<>>), b |-> IntCell(<<"9", "4", "3", "4", "7", "6", "5", "9", "1", "9">>)]}

\* the column selections a caller may give: none, a subset, a reordering, a name
\* given twice, a name that is not in the header
ColumnSelections == {<<>>, <<"a">>, <<"b", "a">>, <<"a", "a">>, <<"b", "zz">>}

\* the corpus files the finder may have been constructed on
ScanCorpora == {<<<<"j", "o", "n", "e", "s">>>>,
                <<<<"j", "o", "n", "e", "s">>, <<"s", "m", "i", "t", "h">>>>}

CellsOf(rows) == {rows[r][c] : r \in DOMAIN rows, c \in {"a", "b"}}

\* cols = self.columns or csv.fieldnames
Cols == IF columns # <<>> THEN columns ELSE fieldnames

Init ==
    /\ pc = "analyse"
    /\ today = ScanDay
    /\ corpus \in ScanCorpora
    /\ namesFile = WriteNames(corpus)
    /\ names = LoadNames(namesFile)
    /\ columns \in ColumnSelections
    /\ fieldnames = <<"a", "b">>
    /\ csv \in UNION {[1..n -> RowPool] : n \in 0..MaxRows}
    /\ dateutil \in [GeneralStrings(CellsOf(csv)) ->
                        {RaiseOutcome, [kind |-> "date", d |-> <<1980, 1, 15>>]}]
    /\ i = 0 /\ ci = 0
    /\ errors = <<>>
    /\ raised = ""
    /\ report = <<>>
    /\ parsed = ReturnNone
    /\ DetectorIdle /\ NhsIdle

\* analyse up to the loop over the rows: errors = {c: {...} for c in cols}
AnalyseStart ==
    /\ pc = "analyse"
    /\ errors' = [c \in Range(Cols) |-> NoFindings]
    /\ i' = 0 /\ ci' = 0
    /\ pc' = "scan"
    /\ UNCHANGED <<today, corpus, namesFile, names, columns, fieldnames, csv, raised,
                   report, value, ret, parsed, dateutil, digits, seps>>

\* one pass of "for c in cols" for row i: value = row[c] raises KeyError when the
\* row has no key c; an exception ends analyse
AnalyseCell ==
    /\ pc = "scan"
    /\ i < Len(csv)
    /\ ci < Len(Cols)
    /\ LET row == csv[i + 1]
           c == Cols[ci + 1]
       IN  IF c \notin DOMAIN row
           THEN /\ raised' = "KeyError"
                /\ pc' = "failed"
                /\ UNCHANGED <<errors, i, ci, value>>
           ELSE LET done == ProcessCell(errors[c], row[c], i, names, today, dateutil)
                IN  /\ value' = row[c]
                    /\ errors' = [errors EXCEPT ![c] = done.e]
                    /\ raised' = done.raised
                    /\ IF done.raised # ""
                       THEN pc' = "failed" /\ UNCHANGED <<i, ci>>
                       ELSE /\ pc' = "scan"
                            /\ IF ci + 1 < Len(Cols)
                               THEN ci' = ci + 1 /\ i' = i
                               ELSE ci' = 0 /\ i' = i + 1
    /\ UNCHANGED <<today, corpus, namesFile, names, columns, fieldnames, csv, report,
                   ret, parsed, dateutil, digits, seps>>

\* the row source is exhausted: return errors
AnalyseReturn ==
    /\ pc = "scan"
    /\ i >= Len(csv)
    /\ pc' = "returned"
    /\ UNCHANGED <<today, corpus, namesFile, names, columns, fieldnames, csv, i, ci,
                   errors, raised, report, value, ret, parsed, dateutil, digits, seps>>

\* main: found_message for every column and category of the result
Report ==
    /\ pc = "returned"
    /\ \E show_all_matches \in BOOLEAN :
        report' = [show_all_matches |-> show_all_matches,
                   shown |-> [c \in DOMAIN errors |-> [k \in EvidenceCategories |->
                                found_message(c, k, errors[c], show_all_matches)]]]
    /\ pc' = "reported"
    /\ UNCHANGED <<today, corpus, namesFile, names, columns, fieldnames, csv, i, ci,
                   errors, raised, value, ret, parsed, dateutil, digits, seps>>

Next == AnalyseStart \/ AnalyseCell \/ AnalyseReturn \/ Report

Spec == Init /\ [][Next]_vars

\* the result of the detector of category k on the cell value v
Detector(k, v) ==
    CASE k = "UHL System Number" -> contains_uhl_system_number(v)
      [] k = "postcode" -> contains_postcode(v)
      [] k = "NHS Number" -> contains_nhs_number(v)
      [] k = "Date of Birth" -> contains_dob(v, today, dateutil)

Scanning == pc \in {"scan", "failed", "returned", "reported"}

Returned == pc \in {"returned", "reported"}

\* the selected columns whose key some row lacks
MissingColumns == {c \in Range(Cols) : \E r \in DOMAIN csv : c \notin DOMAIN csv[r]}

\* C4: when a row lacks the key of a selected column, the cell is treated as
\* null: the scan does not fail, goes on to the end of the rows and returns the
\* findings map, with no finding recorded for that column.
C4_MissingKeyTreatedAsNull ==
    MissingColumns # {} =>
        /\ pc # "failed"
        /\ Returned => /\ i = Len(csv)
                       /\ \A c \in MissingColumns : errors[c] = NoFindings

\* the row indices of a findings sequence
RowsOf(findings) == [p \in DOMAIN findings |-> findings[p].row]

\* C6: in every state reached during analyse, for every selected column and
\* evidence category the row indices of the findings are strictly increasing,
\* none is below 0, and each finding is of a row the source has already yielded.
C6_RowsStrictlyIncreasing ==
    Scanning =>
        \A c \in DOMAIN errors, k \in EvidenceCategories :
            LET rows == RowsOf(errors[c][k])
            IN  /\ \A p, q \in DOMAIN rows : p < q => rows[p] < rows[q]
                /\ \A p \in DOMAIN rows : rows[p] >= 0 /\ rows[p] <= i /\ rows[p] < Len(csv)

\* C7: when analyse returns, the findings of column c under category k contain
\* a finding with row r iff detector k holds on the cell of column c in row r,
\* and every finding carries the cell value of its row.
C7_FindingsIffDetector ==
    Returned =>
        \A c \in Range(Cols), k \in EvidenceCategories :
            /\ \A r \in DOMAIN csv :
                    (\E p \in DOMAIN errors[c][k] : errors[c][k][p].row = r - 1)
                        <=> Truthy(Detector(k, csv[r][c]))
            /\ \A p \in DOMAIN errors[c][k] :
                    errors[c][k][p].value = csv[errors[c][k][p].row + 1][c]

\* a returned scan in which one cell made three detectors hold and each recorded it
C7_Witness ==
    /\ Returned
    /\ \E r \in DOMAIN csv :
        /\ csv[r]["b"].s = UhlText \o <<" ">> \o PostcodeText \o <<" ">> \o NhsText
        /\ "b" \in DOMAIN errors
        /\ \A k \in {"UHL System Number", "postcode", "NHS Number"} :
                \E p \in DOMAIN errors["b"][k] : errors["b"][k][p].row = r - 1

\* what the report shows of every column and category that has findings
ReportShows ==
    pc = "reported" =>
        \A c \in DOMAIN errors, k \in EvidenceCategories :
            LET values == errors[c][k]
                shown == report.shown[c][k]
            IN  values # <<>> =>
                    IF report.show_all_matches
                    THEN /\ shown = values
                         /\ \A p, q \in DOMAIN shown : p < q => shown[p].row <= shown[q].row
                    ELSE /\ Len(shown) = 1
                         /\ shown[1] \in Range(values)
                         /\ \A p \in DOMAIN values : shown[1].row <= values[p].row

\* C8: in first-match mode found_message reports only the finding with the
\* smallest row index of the column and category, in all-matches mode every
\* finding in the order of the rows; reporting leaves the findings as analyse
\* collected them.
C8_ReportModes == [] ReportShows /\ [][pc = "returned" => errors' = errors]_vars

\* first-match mode with a later row that matches too
C8_Witness ==
    /\ pc = "reported" /\ ~report.show_all_matches
    /\ \E c \in DOMAIN errors, k \in EvidenceCategories :
        /\ Len(errors[c][k]) >= 2
        /\ errors[c][k][1].row < errors[c][k][Len(errors[c][k])].row
        /\ report.shown[c][k] = <<errors[c][k][1]>>

\* C10: no detector raises, whatever the cell value: a failure of parse_date
\* makes contains_dob return False, analyse is never ended by a detector, and a
\* scan that returns has gone through every row.
C10_DetectorsNeverRaise ==
    /\ raised # "detector"
    /\ \A v \in CellsOf(csv) :
        /\ contains_dob(v, today, dateutil) \in {"True", "False", "None"}
        /\ parse_date(v, dateutil).kind = "raise" => contains_dob(v, today, dateutil) = "False"
    /\ Returned => i = Len(csv)

\* a malformed date in the first column of row 0, after which the second column
\* of row 0 and a cell of row 1 were recorded
C10_Witness ==
    /\ Returned /\ columns = <<>> /\ Len(csv) = 2
    /\ csv[1]["a"] = MalformedDate
    /\ parse_date(MalformedDate, dateutil).kind = "raise"
    /\ \E p \in DOMAIN errors["b"]["Date of Birth"] : errors["b"]["Date of Birth"][p].row = 0
    /\ \E c \in DOMAIN errors, k \in EvidenceCategories :
            \E p \in DOMAIN errors[c][k] : errors[c][k][p].row = 1

====
